---- MODULE Spec2Model ----
(***************************************************************************)
(* State-machine model of FlowLogProcessor (src/flowLogProcessor.py).      *)
(*                                                                         *)
(* Python text is a sequence of one-character strings, so that strip,      *)
(* lower, split, int() and str() are computed rather than assumed.         *)
(* Python values are records tagged by k: "None", "str", "int"; a raised   *)
(* exception is a record tagged "raise".  A dict is a function whose       *)
(* DOMAIN is its key set.                                                  *)
(***************************************************************************)
EXTENDS Integers, Sequences, FiniteSets, TLC

----------------------------------------------------------------------------
(* Bounds of the model *)

\* number of FlowLogProcessor instances created in one process
NumEngines == 2
\* greatest number of times run() is invoked on one instance
MaxRuns == 2
\* number of lines of a generated flow log file
MaxLines == 2
\* number of data rows of a generated mapping file
MaxRuleRows == 2

Engines == 1..NumEngines

----------------------------------------------------------------------------
(* Python values *)

PyNone == [k |-> "None"]
PyS(s) == [k |-> "str", s |-> s]
PyI(n) == [k |-> "int", n |-> n]
Raise(exc) == [k |-> "raise", exc |-> exc]

\* dict.get(key, default)
DictGet(d, key, default) == IF key \in DOMAIN d THEN d[key] ELSE default

\* d[key] = value
DictSet(d, key, value) == [x \in (DOMAIN d) \cup {key} |-> IF x = key THEN value ELSE d[x]]

\* defaultdict(int): d[key] += 1
DictInc(d, key) == DictSet(d, key, DictGet(d, key, 0) + 1)

EmptyDict == [x \in {} |-> 0]

RECURSIVE SumOver(_, _)
SumOver(d, keys) ==
    IF keys = {} THEN 0
    ELSE LET x == CHOOSE y \in keys : TRUE IN d[x] + SumOver(d, keys \ {x})

\* sum(d.values())
DictSum(d) == SumOver(d, DOMAIN d)

----------------------------------------------------------------------------
(* Python str operations *)

\* the characters below U+0080 that str.strip() removes: tab, line feed,
\* vertical tab (U+000B), form feed, carriage return, the separators U+001C
\* to U+001F, and the space
Whitespace == {" ", "\t", "\n", "", "\f", "\r", "", "", "", ""}
\* the characters below U+0080 that int() accepts around the digits: the
\* separators U+001C to U+001F are not among them
IntWhitespace == {" ", "\t", "\n", "", "\f", "\r"}
Digits == <<"0", "1", "2", "3", "4", "5", "6", "7", "8", "9">>
UpperCase == <<"A", "B", "C", "D", "E", "F", "G", "H", "I", "J", "K", "L", "M",
               "N", "O", "P", "Q", "R", "S", "T", "U", "V", "W", "X", "Y", "Z">>
LowerCase == <<"a", "b", "c", "d", "e", "f", "g", "h", "i", "j", "k", "l", "m",
               "n", "o", "p", "q", "r", "s", "t", "u", "v", "w", "x", "y", "z">>

IsDigit(c) == \E i \in 1..10 : Digits[i] = c
DigitVal(c) == (CHOOSE i \in 1..10 : Digits[i] = c) - 1

LowerChar(c) ==
    IF \E i \in 1..26 : UpperCase[i] = c
    THEN LowerCase[CHOOSE i \in 1..26 : UpperCase[i] = c]
    ELSE c

\* str.lower()
Lower(s) == [i \in 1..Len(s) |-> LowerChar(s[i])]

RECURSIVE LStrip(_)
LStrip(s) == IF s # <<>> /\ Head(s) \in Whitespace THEN LStrip(Tail(s)) ELSE s

RECURSIVE RStrip(_)
RStrip(s) ==
    IF s # <<>> /\ s[Len(s)] \in Whitespace THEN RStrip(SubSeq(s, 1, Len(s) - 1)) ELSE s

\* str.strip()
Strip(s) == RStrip(LStrip(s))

\* str.split(delimiter) for a one-character delimiter: every occurrence
\* separates two parts, empty parts are kept
RECURSIVE SplitAcc(_, _, _)
SplitAcc(s, delimiter, cur) ==
    IF s = <<>> THEN <<cur>>
    ELSE IF Head(s) = delimiter THEN <<cur>> \o SplitAcc(Tail(s), delimiter, <<>>)
    ELSE SplitAcc(Tail(s), delimiter, Append(cur, Head(s)))

Split(s, delimiter) == SplitAcc(s, delimiter, <<>>)

\* delimiter.join(parts)
RECURSIVE Join(_, _)
Join(parts, delimiter) ==
    IF parts = <<>> THEN <<>>
    ELSE IF Len(parts) = 1 THEN parts[1]
    ELSE parts[1] \o <<delimiter>> \o Join(Tail(parts), delimiter)

\* digits with single underscores between them
IsIntBody(s) ==
    /\ s # <<>>
    /\ IsDigit(s[1])
    /\ IsDigit(s[Len(s)])
    /\ \A i \in 1..Len(s) : IsDigit(s[i]) \/ s[i] = "_"
    /\ \A i \in 1..(Len(s) - 1) : ~(s[i] = "_" /\ s[i + 1] = "_")

RECURSIVE IntBodyVal(_, _)
IntBodyVal(s, acc) ==
    IF s = <<>> THEN acc
    ELSE IF Head(s) = "_" THEN IntBodyVal(Tail(s), acc)
    ELSE IntBodyVal(Tail(s), 10 * acc + DigitVal(Head(s)))

\* s without the characters int() skips before and after the number
RECURSIVE IntLStrip(_)
IntLStrip(s) == IF s # <<>> /\ Head(s) \in IntWhitespace THEN IntLStrip(Tail(s)) ELSE s

RECURSIVE IntRStrip(_)
IntRStrip(s) ==
    IF s # <<>> /\ s[Len(s)] \in IntWhitespace THEN IntRStrip(SubSeq(s, 1, Len(s) - 1)) ELSE s

\* int(s) for a str s: surrounding whitespace and one sign are accepted;
\* anything else raises ValueError
IntOfStr(s) ==
    LET t == IntRStrip(IntLStrip(s))
        signed == t # <<>> /\ t[1] \in {"+", "-"}
        body == IF signed THEN Tail(t) ELSE t
    IN  IF ~IsIntBody(body) THEN Raise("ValueError")
        ELSE IF signed /\ t[1] = "-" THEN PyI(0 - IntBodyVal(body, 0))
        ELSE PyI(IntBodyVal(body, 0))

RECURSIVE NatStr(_)
NatStr(n) == IF n < 10 THEN <<Digits[n + 1]>> ELSE NatStr(n \div 10) \o <<Digits[(n % 10) + 1]>>

\* str(n) for an int n
IntStr(n) == IF n < 0 THEN <<"-">> \o NatStr(0 - n) ELSE NatStr(n)

\* str(None)
None_ == <<"N", "o", "n", "e">>

\* str(v)
PyStr(v) ==
    CASE v.k = "None" -> None_
      [] v.k = "int" -> IntStr(v.n)
      [] v.k = "str" -> v.s

\* data_type(value) for data_type in {int, str}
Convert(value, data_type) ==
    IF data_type = "int"
    THEN IF value.k = "None" THEN Raise("TypeError") ELSE IntOfStr(value.s)
    ELSE PyS(PyStr(value))

\* truth value of a str
Truthy(s) == s # <<>>

----------------------------------------------------------------------------
(* Text literals used by the program *)

S_dash == <<"-">>
S_1 == <<"1">>
S_6 == <<"6">>
S_17 == <<"1", "7">>
S_47 == <<"4", "7">>
S_50 == <<"5", "0">>
S_51 == <<"5", "1">>
S_58 == <<"5", "8">>
S_132 == <<"1", "3", "2">>
S_icmp == <<"i", "c", "m", "p">>
S_tcp == <<"t", "c", "p">>
S_udp == <<"u", "d", "p">>
S_gre == <<"g", "r", "e">>
S_esp == <<"e", "s", "p">>
S_ah == <<"a", "h">>
S_ipv6_icmp == <<"i", "p", "v", "6", "-", "i", "c", "m", "p">>
S_sctp == <<"s", "c", "t", "p">>

----------------------------------------------------------------------------
(* FlowLogProcessor: class attributes and pure methods *)

FieldNames ==
    <<"version", "account-id", "interface-id", "srcaddr", "dstaddr", "srcport",
      "dstport", "protocol", "packets", "bytes", "start", "end", "action",
      "log-status", "vpc-id", "subnet-id", "instance-id", "tcp-flags", "type",
      "pkt-srcaddr", "pkt-dstaddr", "region", "az-id", "sublocation-type",
      "sublocation-id", "pkt-src-aws-service", "pkt-dst-aws-service",
      "flow-direction", "traffic-path", "ecs-cluster-arn", "ecs-cluster-name",
      "ecs-container-instance-arn", "ecs-container-instance-id",
      "ecs-container-id", "ecs-second-container-id", "ecs-service-name",
      "ecs-task-definition-arn", "ecs-task-arn", "ecs-task-id", "reject-reason">>

IntFieldNames ==
    {"version", "srcport", "dstport", "protocol", "packets", "bytes", "start",
     "end", "tcp-flags", "traffic-path"}

\* FIELD_MAPPING[name] = <<position, data type>>
FIELD_MAPPING ==
    [name \in {FieldNames[i] : i \in 1..Len(FieldNames)} |->
        <<(CHOOSE i \in 1..Len(FieldNames) : FieldNames[i] = name) - 1,
          IF name \in IntFieldNames THEN "int" ELSE "str">>]

\* the number of tokens the default layout requires
DefaultMinFields == 14

\* _sanitize_value: "-" gives None, a ValueError of the conversion gives None,
\* any other exception propagates
sanitize_value(value, data_type) ==
    IF value.k = "str" /\ value.s = S_dash THEN PyNone
    ELSE LET r == Convert(value, data_type)
         IN  IF r.k = "raise" /\ r.exc = "ValueError" THEN PyNone ELSE r

\* the fallback table of load_protocol_mappings
common_protocols ==
    (S_1 :> S_icmp) @@ (S_6 :> S_tcp) @@ (S_17 :> S_udp) @@ (S_47 :> S_gre) @@
    (S_50 :> S_esp) @@ (S_51 :> S_ah) @@ (S_58 :> S_ipv6_icmp) @@ (S_132 :> S_sctp)

\* one row of csv.DictReader: a cell per header column, None for the columns
\* a short row does not reach
DictReaderRow(header, cells) ==
    [name \in {header[i] : i \in 1..Len(header)} |->
        LET i == CHOOSE j \in 1..Len(header) :
                    /\ header[j] = name
                    /\ \A m \in (j + 1)..Len(header) : header[m] # name
        IN  IF i <= Len(cells) THEN PyS(cells[i]) ELSE PyNone]

\* row.get(name, default)
RowGet(row, name, default) == IF name \in DOMAIN row THEN row[name] ELSE default

\* body of the row loop of load_protocol_mappings; .strip() of None raises
ProtocolRow(row, registry) ==
    IF "Decimal" \in DOMAIN row /\ "Keyword" \in DOMAIN row
    THEN IF row["Decimal"].k = "None" \/ row["Keyword"].k = "None"
         THEN [d |-> registry, raised |-> TRUE]
         ELSE LET number == Strip(row["Decimal"].s)
                  name == Lower(Strip(row["Keyword"].s))
              IN  IF Truthy(number) /\ Truthy(name)
                  THEN [d |-> DictSet(registry, number, name), raised |-> FALSE]
                  ELSE [d |-> registry, raised |-> FALSE]
    ELSE [d |-> registry, raised |-> FALSE]

\* the row loop of load_protocol_mappings from row i on; the file raises an
\* I/O or csv error when row file.errAt is read; DictReader drops empty rows
RECURSIVE LoadProtocolRows(_, _, _)
LoadProtocolRows(file, i, registry) ==
    IF file.errAt = i THEN [d |-> registry, raised |-> TRUE]
    ELSE IF i > Len(file.rows) THEN [d |-> registry, raised |-> FALSE]
    ELSE IF file.rows[i] = <<>> THEN LoadProtocolRows(file, i + 1, registry)
    ELSE LET r == ProtocolRow(DictReaderRow(file.header, file.rows[i]), registry)
         IN  IF r.raised THEN r ELSE LoadProtocolRows(file, i + 1, r.d)

\* load_protocol_mappings, called by __init__ on an instance that has no
\* attribute PROTOCOL_NUMBER_TO_NAME of its own yet: the rows are stored in the
\* class attribute; the fallback is assigned to the instance
load_protocol_mappings(file, class_registry) ==
    IF file.given /\ file.exists
    THEN LET r == LoadProtocolRows(file, 1, class_registry)
         IN  IF r.raised
             THEN [cls |-> r.d, has_own |-> TRUE, own |-> common_protocols]
             ELSE [cls |-> r.d, has_own |-> FALSE, own |-> EmptyDict]
    ELSE [cls |-> class_registry, has_own |-> TRUE, own |-> common_protocols]

\* variant: a number without an entry resolves to the empty string
protocol_number_to_name_NoDefault(registry, protocol_number) ==
    DictGet(registry, protocol_number, <<>>)

\* _protocol_number_to_name
protocol_number_to_name(registry, protocol_number) ==
    DictGet(registry, protocol_number, protocol_number)

\* variant: the protocol of a rule is stored as written, trimmed only
MappingRow_NoLower(row, rules) ==
    LET dstport == sanitize_value(RowGet(row, "dstport", PyS(<<>>)), "int")
        p == RowGet(row, "protocol", PyS(<<>>))
        t == RowGet(row, "tag", PyS(<<>>))
    IN  IF dstport.k = "raise" \/ p.k = "None" \/ t.k = "None"
        THEN [d |-> rules, raised |-> TRUE]
        ELSE LET protocol == Strip(p.s)
                 tag == Strip(t.s)
             IN  IF dstport.k # "None" /\ Truthy(protocol) /\ Truthy(tag)
                 THEN [d |-> DictSet(rules, <<PyStr(dstport), protocol>>, tag),
                       raised |-> FALSE]
                 ELSE [d |-> rules, raised |-> FALSE]

\* body of the row loop of load_mapping_rules; int(None), None.lower() and
\* None.strip() raise
MappingRow(row, rules) ==
    LET dstport == sanitize_value(RowGet(row, "dstport", PyS(<<>>)), "int")
        p == RowGet(row, "protocol", PyS(<<>>))
        t == RowGet(row, "tag", PyS(<<>>))
    IN  IF dstport.k = "raise" \/ p.k = "None" \/ t.k = "None"
        THEN [d |-> rules, raised |-> TRUE]
        ELSE LET protocol == Strip(Lower(p.s))
                 tag == Strip(t.s)
             IN  IF dstport.k # "None" /\ Truthy(protocol) /\ Truthy(tag)
                 THEN [d |-> DictSet(rules, <<PyStr(dstport), protocol>>, tag),
                       raised |-> FALSE]
                 ELSE [d |-> rules, raised |-> FALSE]

RECURSIVE LoadMappingRows(_, _, _)
LoadMappingRows(file, i, rules) ==
    IF file.errAt = i THEN [d |-> rules, raised |-> TRUE]
    ELSE IF i > Len(file.rows) THEN [d |-> rules, raised |-> FALSE]
    ELSE IF file.rows[i] = <<>> THEN LoadMappingRows(file, i + 1, rules)
    ELSE LET r == MappingRow(DictReaderRow(file.header, file.rows[i]), rules)
         IN  IF r.raised THEN r ELSE LoadMappingRows(file, i + 1, r.d)

\* load_mapping_rules: every exception is logged and raised again
load_mapping_rules(file, rules) ==
    IF ~file.exists THEN [d |-> rules, raised |-> TRUE]
    ELSE LoadMappingRows(file, 1, rules)

\* the tokens of a line
Parts(line, delimiter) ==
    LET raw == Split(Strip(line), delimiter)
    IN  [i \in 1..Len(raw) |-> Strip(raw[i])]

\* variant: only a line with too few tokens is a mismatch
FieldCountMismatch_FewerOnly(parts, log_field_names) == Len(parts) < Len(log_field_names)

FieldCountMismatch(parts, log_field_names) == Len(parts) # Len(log_field_names)

\* log_entry after the field loop: the catalog's fields, sanitized
LogEntry(log_field_names, parts) ==
    [name \in {log_field_names[i] : i \in 1..Len(log_field_names)} \cap DOMAIN FIELD_MAPPING |->
        LET i == CHOOSE j \in 1..Len(log_field_names) :
                    /\ log_field_names[j] = name
                    /\ \A m \in (j + 1)..Len(log_field_names) : log_field_names[m] # name
        IN  sanitize_value(PyS(parts[i]), FIELD_MAPPING[name][2])]

\* the number of times the field loop takes its unknown-field branch, whose
\* continue resumes the field loop
UnknownFieldSkips(log_field_names) ==
    Cardinality({i \in 1..Len(log_field_names) : log_field_names[i] \notin DOMAIN FIELD_MAPPING})

\* variant: a record without a rule is counted in portProtocolCounts only
CountRecord_NoUntagged(c, dstport, protocol_name) ==
    IF Truthy(dstport) /\ Truthy(protocol_name)
    THEN LET key == <<dstport, protocol_name>>
             c1 == [c EXCEPT !.port_protocol_counts = DictInc(@, key)]
         IN  IF key \in DOMAIN c.mapping_rules /\ Truthy(c.mapping_rules[key])
             THEN [c1 EXCEPT !.tag_counts = DictInc(@, c.mapping_rules[key])]
             ELSE c1
    ELSE [c EXCEPT !.skipped_lines = @ + 1]

\* the counting step at the end of the line loop
CountRecord(c, dstport, protocol_name) ==
    IF Truthy(dstport) /\ Truthy(protocol_name)
    THEN LET key == <<dstport, protocol_name>>
             c1 == [c EXCEPT !.port_protocol_counts = DictInc(@, key)]
         IN  IF key \in DOMAIN c.mapping_rules /\ Truthy(c.mapping_rules[key])
             THEN [c1 EXCEPT !.tag_counts = DictInc(@, c.mapping_rules[key])]
             ELSE [c1 EXCEPT !.untagged_count = @ + 1]
    ELSE [c EXCEPT !.skipped_lines = @ + 1]

\* variant: the default layout is read one token early, the source port as
\* the port and the destination port as the protocol number
ProcessLine_OneTokenEarly(c, registry, line) ==
    LET c0 == [c EXCEPT !.processed_lines = @ + 1]
        parts == Parts(line, c.delimiter)
    IN  IF c.log_field_names # <<>>
        THEN IF FieldCountMismatch(parts, c.log_field_names)
             THEN [c0 EXCEPT !.skipped_lines = @ + 1]
             ELSE LET log_entry == LogEntry(c.log_field_names, parts)
                      c1 == [c0 EXCEPT !.skipped_lines = @ + UnknownFieldSkips(c.log_field_names)]
                      dstport == PyStr(DictGet(log_entry, "dstport", PyNone))
                      protocol_number == PyStr(DictGet(log_entry, "protocol", PyNone))
                  IN  CountRecord(c1, dstport, protocol_number_to_name(registry, protocol_number))
        ELSE IF Len(parts) >= DefaultMinFields
             THEN CountRecord(c0, parts[6], protocol_number_to_name(registry, parts[7]))
             ELSE [c0 EXCEPT !.skipped_lines = @ + 1]

\* variant: a line is counted as processed after the field-count check, so a
\* line skipped for its field count is not
ProcessLine_CountAfterChecks(c, registry, line) ==
    LET c0 == [c EXCEPT !.processed_lines = @ + 1]
        parts == Parts(line, c.delimiter)
    IN  IF c.log_field_names # <<>>
        THEN IF FieldCountMismatch(parts, c.log_field_names)
             THEN [c EXCEPT !.skipped_lines = @ + 1]
             ELSE LET log_entry == LogEntry(c.log_field_names, parts)
                      c1 == [c0 EXCEPT !.skipped_lines = @ + UnknownFieldSkips(c.log_field_names)]
                      dstport == PyStr(DictGet(log_entry, "dstport", PyNone))
                      protocol_number == PyStr(DictGet(log_entry, "protocol", PyNone))
                  IN  CountRecord(c1, dstport, protocol_number_to_name(registry, protocol_number))
        ELSE IF Len(parts) >= DefaultMinFields
             THEN CountRecord(c0, parts[7], protocol_number_to_name(registry, parts[8]))
             ELSE [c EXCEPT !.skipped_lines = @ + 1]

\* body of the line loop of process_flow_logs on engine record c, whose
\* self.PROTOCOL_NUMBER_TO_NAME resolves to registry
ProcessLine(c, registry, line) ==
    LET c0 == [c EXCEPT !.processed_lines = @ + 1]
        parts == Parts(line, c.delimiter)
    IN  IF c.log_field_names # <<>>
        THEN IF FieldCountMismatch(parts, c.log_field_names)
             THEN [c0 EXCEPT !.skipped_lines = @ + 1]
             ELSE LET log_entry == LogEntry(c.log_field_names, parts)
                      c1 == [c0 EXCEPT !.skipped_lines = @ + UnknownFieldSkips(c.log_field_names)]
                      dstport == PyStr(DictGet(log_entry, "dstport", PyNone))
                      protocol_number == PyStr(DictGet(log_entry, "protocol", PyNone))
                  IN  CountRecord(c1, dstport, protocol_number_to_name(registry, protocol_number))
        ELSE IF Len(parts) >= DefaultMinFields
             THEN CountRecord(c0, parts[7], protocol_number_to_name(registry, parts[8]))
             ELSE [c0 EXCEPT !.skipped_lines = @ + 1]

----------------------------------------------------------------------------
(* The run: stages of run() and what the report holds *)

\* variant: a stage that raised is followed by the next stage all the same
NextStage_IgnoreFailure(stage, raised) ==
    CASE stage = "load" -> "open"
      [] stage = "scan" -> "write"
      [] stage = "write" -> "idle"

\* where run() goes after a stage: an exception of any stage reaches the except
\* clause, which ends the run
NextStage(stage, raised) ==
    IF raised THEN "idle"
    ELSE CASE stage = "load" -> "open"
           [] stage = "scan" -> "write"
           [] stage = "write" -> "idle"

\* how run() ends for its caller: the except clause logs and does not raise
RunResult(raised) == "returned"

\* the characters of ASCII in code-point order: from the space (32) to the
\* underscore (95), and from a (97) to the tilde (126)
CodePointsFromSpace ==
    <<" ", "!", "\"", "#", "$", "%", "&", "'", "(", ")", "*", "+", ",", "-", ".", "/",
      "0", "1", "2", "3", "4", "5", "6", "7", "8", "9", ":", ";", "<", "=", ">", "?",
      "@", "A", "B", "C", "D", "E", "F", "G", "H", "I", "J", "K", "L", "M", "N", "O",
      "P", "Q", "R", "S", "T", "U", "V", "W", "X", "Y", "Z", "[", "\\", "]", "^", "_">>
CodePointsFromLowerA ==
    <<"a", "b", "c", "d", "e", "f", "g", "h", "i", "j", "k", "l", "m", "n", "o", "p",
      "q", "r", "s", "t", "u", "v", "w", "x", "y", "z", "{", "|", "}", "~">>

\* ord(ch), which orders the characters in a comparison of two str values
Ord(ch) ==
    IF \E i \in 1..Len(CodePointsFromSpace) : CodePointsFromSpace[i] = ch
    THEN 31 + (CHOOSE i \in 1..Len(CodePointsFromSpace) : CodePointsFromSpace[i] = ch)
    ELSE 96 + (CHOOSE i \in 1..Len(CodePointsFromLowerA) : CodePointsFromLowerA[i] = ch)

\* a < b on two str values
RECURSIVE StrLess(_, _)
StrLess(a, b) ==
    IF b = <<>> THEN FALSE
    ELSE IF a = <<>> THEN TRUE
    ELSE IF a[1] = b[1] THEN StrLess(Tail(a), Tail(b))
    ELSE Ord(a[1]) < Ord(b[1])

\* a < b on two (port, protocol) tuples
PairLess(a, b) == StrLess(a[1], b[1]) \/ (a[1] = b[1] /\ StrLess(a[2], b[2]))

\* variant: the tags are written from the greatest to the least
RECURSIVE SortedTags_Descending(_)
SortedTags_Descending(tags) ==
    IF tags = {} THEN <<>>
    ELSE LET last == CHOOSE t \in tags : \A u \in tags \ {t} : StrLess(u, t)
         IN  <<last>> \o SortedTags_Descending(tags \ {last})

\* the keys of sorted(self.tag_counts.items())
RECURSIVE SortedTags(_)
SortedTags(tags) ==
    IF tags = {} THEN <<>>
    ELSE LET first == CHOOSE t \in tags : \A u \in tags \ {t} : StrLess(t, u)
         IN  <<first>> \o SortedTags(tags \ {first})

\* the keys of sorted(self.port_protocol_counts.items())
RECURSIVE SortedPairs(_)
SortedPairs(pairs) ==
    IF pairs = {} THEN <<>>
    ELSE LET first == CHOOSE k \in pairs : \A u \in pairs \ {k} : PairLess(k, u)
         IN  <<first>> \o SortedPairs(pairs \ {first})

\* the lines generate_reports writes, without their newlines; a fixed label is
\* kept as one piece of text
TagHeaderLines == <<<<"Tag Counts:">>, <<"Tag,Count">>>>
PairHeaderLines == <<<<"Port/Protocol Combination Counts:">>, <<"Port,Protocol,Count">>>>
TagLine(tag, count) == tag \o <<",">> \o IntStr(count)
UntaggedLine(count) == <<"Untagged", ",">> \o IntStr(count)
PairLine(key, count) == key[1] \o <<",">> \o key[2] \o <<",">> \o IntStr(count)
ProcessedLine(count) == <<"Processed Lines: ">> \o IntStr(count)
SkippedLine(count) == <<"Skipped Lines: ">> \o IntStr(count)

\* what generate_reports writes, taken from the instance
Report(c) ==
    LET tags == SortedTags(DOMAIN c.tag_counts)
        pairs == SortedPairs(DOMAIN c.port_protocol_counts)
    IN  [written |-> TRUE,
         lines |-> TagHeaderLines
                   \o [i \in 1..Len(tags) |-> TagLine(tags[i], c.tag_counts[tags[i]])]
                   \o <<UntaggedLine(c.untagged_count), <<>>>>
                   \o PairHeaderLines
                   \o [i \in 1..Len(pairs) |-> PairLine(pairs[i], c.port_protocol_counts[pairs[i]])]
                   \o <<<<>>, ProcessedLine(c.processed_lines), SkippedLine(c.skipped_lines)>>]

NoReport == [written |-> FALSE]

----------------------------------------------------------------------------
(* Inputs: the files and constructor arguments of a process *)

S_25 == <<"2", "5">>
S_025 == <<"0", "2", "5">>
S_443 == <<"4", "4", "3">>
S_99 == <<"9", "9">>
S_253 == <<"2", "5", "3">>
S_25_vt == <<"2", "5", "">>
S_fs_25 == <<"", "2", "5">>
S_x == <<"x">>
S_abc == <<"a", "b", "c">>
S_TCP_padded == <<" ", "T", "C", "P", " ">>
S_sv_P1 == <<"s", "v", "_", "P", "1">>
S_sv_P2 == <<"s", "v", "_", "P", "2">>
S_foo == <<"f", "o", "o">>
S_blank == <<" ">>

SeqsUpTo(S, n) == UNION {[1..m -> S] : m \in 0..n}

\* a line of the flow log file: tokens joined by spaces, with its newline
LineOf(tokens) == Join(tokens, " ") \o <<"\n">>

\* a line in the default layout with n tokens
DefaultLine(port, proto, n) ==
    LineOf([i \in 1..n |-> IF i = 7 THEN port ELSE IF i = 8 THEN proto ELSE S_x])

NoRegistryFile == [given |-> FALSE, exists |-> FALSE, header |-> <<>>, rows |-> <<>>, errAt |-> 0]
RegistryHeader == <<"Decimal", "Keyword">>
RegistryFile(header, rows, errAt) ==
    [given |-> TRUE, exists |-> TRUE, header |-> header, rows |-> rows, errAt |-> errAt]

MappingHeader == <<"dstport", "protocol", "tag">>
MappingFile(header, rows, errAt) ==
    [exists |-> TRUE, header |-> header, rows |-> rows, errAt |-> errAt]
MissingFile == [exists |-> FALSE, header |-> <<>>, rows |-> <<>>, errAt |-> 0]
GoodMappingFile ==
    MappingFile(MappingHeader, <<<<S_25, S_tcp, S_sv_P1>>, <<S_443, S_TCP_padded, S_sv_P2>>>>, 0)

FlowLogFile(lines, errAt) == [exists |-> TRUE, lines |-> lines, errAt |-> errAt]
MissingFlowLog == [exists |-> FALSE, lines |-> <<>>, errAt |-> 0]

Args(log_field_names, protocol_mapping_file) ==
    [log_field_names |-> log_field_names, delimiter |-> " ",
     protocol_mapping_file |-> protocol_mapping_file]

\* field-name lists given to the constructor; <<>> is the default mode
FieldLists ==
    {<<"dstport", "protocol">>,
     <<"dstport", "bogus", "protocol">>,
     <<"bogus", "dstport", "protocol", "bogus2">>,
     <<"srcaddr", "dstport">>,
     <<"action">>}

NamedLines ==
    {LineOf(<<S_25, S_6>>), LineOf(<<S_443, S_17>>), LineOf(<<S_dash, S_6>>),
     LineOf(<<S_25, S_dash>>), LineOf(<<S_abc, S_6>>), LineOf(<<S_025, S_6>>),
     LineOf(<<S_25>>), LineOf(<<S_25, S_x, S_6>>), LineOf(<<S_x, S_25, S_6, S_x>>),
     LineOf(<<S_x, S_443, S_6, S_x, S_x>>)}

DefaultLines ==
    {DefaultLine(S_25, S_6, 14), DefaultLine(S_443, S_17, 15), DefaultLine(S_dash, S_6, 14),
     DefaultLine(S_25, S_dash, 14), DefaultLine(<<>>, S_6, 14), DefaultLine(S_25, S_6, 13),
     DefaultLine(S_25, S_253, 14), DefaultLine(S_25_vt, S_6, 14)}

\* one instance scanning every short flow log, in every mode
LineScenarios ==
    {[mapping_file |-> GoodMappingFile, flow_log_file |-> FlowLogFile(lines, 0),
      output_writable |-> TRUE, program |-> {1}, calls |-> MaxRuns,
      args |-> [e \in Engines |-> Args(names, NoRegistryFile)]] :
        names \in FieldLists, lines \in SeqsUpTo(NamedLines, MaxLines)}
    \cup
    {[mapping_file |-> GoodMappingFile, flow_log_file |-> FlowLogFile(lines, 0),
      output_writable |-> TRUE, program |-> {1}, calls |-> MaxRuns,
      args |-> [e \in Engines |-> Args(<<>>, NoRegistryFile)]] :
        lines \in SeqsUpTo(DefaultLines, MaxLines)}

RuleRows ==
    {<<S_25, S_tcp, S_sv_P1>>, <<S_25, S_TCP_padded, S_sv_P2>>, <<S_abc, S_tcp, S_sv_P1>>,
     <<<<>>, S_tcp, S_sv_P1>>, <<S_25, S_blank, S_sv_P1>>, <<S_25, S_udp, <<>>>>,
     <<S_025, S_udp, S_sv_P2, S_x>>, <<S_25, S_tcp>>, <<S_25>>, <<>>,
     <<S_fs_25, S_tcp, S_sv_P2>>}

\* one instance loading every short mapping file
RuleScenarios ==
    {[mapping_file |-> MappingFile(header, rows, 0),
      flow_log_file |-> FlowLogFile(<<DefaultLine(S_25, S_6, 14)>>, 0),
      output_writable |-> TRUE, program |-> {1}, calls |-> MaxRuns,
      args |-> [e \in Engines |-> Args(<<>>, NoRegistryFile)]] :
        header \in {MappingHeader, <<"tag", "protocol", "dstport">>, <<"dstport", "protocol">>},
        rows \in SeqsUpTo(RuleRows, MaxRuleRows)}

RegistryFiles ==
    {NoRegistryFile,
     [given |-> TRUE, exists |-> FALSE, header |-> <<>>, rows |-> <<>>, errAt |-> 0],
     RegistryFile(RegistryHeader, <<<<S_6, S_TCP_padded>>, <<S_99, S_foo>>>>, 0),
     RegistryFile(RegistryHeader, <<<<S_6, S_foo>>, <<S_17, S_udp>>>>, 0),
     RegistryFile(RegistryHeader, <<<<S_6, S_tcp>>, <<S_99, S_foo>>>>, 2),
     RegistryFile(RegistryHeader, <<<<S_99, S_foo>>, <<S_6>>>>, 0),
     RegistryFile(RegistryHeader, <<<<S_blank, S_tcp>>, <<>>, <<S_6, <<>>>>>>, 0),
     RegistryFile(<<"Number", "Keyword">>, <<<<S_6, S_tcp>>>>, 0),
     RegistryFile(<<"Decimal", "Name">>, <<<<S_6, S_tcp>>>>, 0)}

\* every instance of the process with a registry file of its own, run once
RegistryScenarios ==
    {[mapping_file |-> GoodMappingFile,
      flow_log_file |-> FlowLogFile(<<DefaultLine(S_25, S_6, 14), DefaultLine(S_25, S_99, 14)>>, 0),
      output_writable |-> TRUE, program |-> Engines, calls |-> 1,
      args |-> [e \in Engines |-> Args(<<>>, files[e])]] :
        files \in [Engines -> RegistryFiles]}

\* one instance whose files are missing, break while read, or cannot be written
FailureScenarios ==
    {[mapping_file |-> mapping_file, flow_log_file |-> flow_log_file,
      output_writable |-> output_writable, program |-> {1}, calls |-> MaxRuns,
      args |-> [e \in Engines |-> Args(<<>>, NoRegistryFile)]] :
        mapping_file \in {MissingFile, GoodMappingFile}
                         \cup {MappingFile(MappingHeader, GoodMappingFile.rows, i) : i \in 1..3},
        flow_log_file \in {MissingFlowLog}
                          \cup {FlowLogFile(<<DefaultLine(S_25, S_6, 14), DefaultLine(S_443, S_6, 14)>>, i) :
                                    i \in 0..3},
        output_writable \in BOOLEAN}

\* the field names of the version-2 layout: the first 14 of FIELD_MAPPING
V2FieldNames == SubSeq(FieldNames, 1, DefaultMinFields)

V2Lines ==
    {DefaultLine(S_25, S_6, 14), DefaultLine(S_025, S_6, 14), DefaultLine(S_dash, S_6, 14),
     DefaultLine(S_abc, S_6, 14), DefaultLine(S_25, S_dash, 14)}

\* one instance in default mode and one with the version-2 field names, on
\* one flow log of 14-token lines
LayoutScenarios ==
    {[mapping_file |-> GoodMappingFile, flow_log_file |-> FlowLogFile(lines, 0),
      output_writable |-> TRUE, program |-> {1, 2}, calls |-> MaxRuns,
      args |-> [e \in Engines |-> Args(IF e = 2 THEN V2FieldNames ELSE <<>>, NoRegistryFile)]] :
        lines \in SeqsUpTo(V2Lines, MaxLines)}

Scenarios ==
    LineScenarios \cup RuleScenarios \cup RegistryScenarios \cup FailureScenarios
    \cup LayoutScenarios

----------------------------------------------------------------------------
(* State *)

VARIABLES
    env,                      \* the files, the constructor arguments, the run() calls per instance
    PROTOCOL_NUMBER_TO_NAME,  \* the class attribute
    eng,                      \* eng[e]: the attributes of instance e
    pc,                       \* pc[e]: "new", "idle", or the stage run() is in
    line_number,              \* line_number[e]: the line the scan reads next
    output,                   \* output[e]: what instance e wrote last
    writes,                   \* writes[e]: the reports instance e has written
    runs,                     \* runs[e]: the calls of run() on e so far
    trace,                    \* trace[e]: the stages of e's latest run, in order
    run_result                \* run_result[e]: how e's latest run() ended

vars == <<env, PROTOCOL_NUMBER_TO_NAME, eng, pc, line_number, output, writes, runs, trace, run_result>>

\* self.PROTOCOL_NUMBER_TO_NAME: the instance attribute when there is one
Registry(e) == IF eng[e].has_own THEN eng[e].own ELSE PROTOCOL_NUMBER_TO_NAME

\* the attributes __init__ assigns before load_protocol_mappings
NewEngine(args) ==
    [log_field_names |-> args.log_field_names,
     delimiter |-> args.delimiter,
     has_own |-> FALSE,
     own |-> EmptyDict,
     mapping_rules |-> EmptyDict,
     tag_counts |-> EmptyDict,
     port_protocol_counts |-> EmptyDict,
     untagged_count |-> 0,
     processed_lines |-> 0,
     skipped_lines |-> 0]

\* one thread of control: no instance is inside run()
NoneRunning == \A e \in Engines : pc[e] \in {"new", "idle"}

Init ==
    /\ env \in Scenarios
    /\ PROTOCOL_NUMBER_TO_NAME = EmptyDict
    /\ eng = [e \in Engines |-> NewEngine(env.args[e])]
    /\ pc = [e \in Engines |-> "new"]
    /\ line_number = [e \in Engines |-> 0]
    /\ output = [e \in Engines |-> NoReport]
    /\ writes = [e \in Engines |-> 0]
    /\ runs = [e \in Engines |-> 0]
    /\ trace = [e \in Engines |-> <<>>]
    /\ run_result = [e \in Engines |-> "none"]

\* __init__
Construct(e) ==
    /\ pc[e] = "new"
    /\ e \in env.program
    /\ NoneRunning
    /\ LET r == load_protocol_mappings(env.args[e].protocol_mapping_file, PROTOCOL_NUMBER_TO_NAME)
       IN  /\ PROTOCOL_NUMBER_TO_NAME' = r.cls
           /\ eng' = [eng EXCEPT ![e] = [NewEngine(env.args[e]) EXCEPT !.has_own = r.has_own, !.own = r.own]]
    /\ pc' = [pc EXCEPT ![e] = "idle"]
    /\ UNCHANGED <<env, line_number, output, writes, runs, trace, run_result>>

\* the end of a stage of run(): the next stage, or the end of the run
EndStage(e, stage, raised) ==
    /\ pc' = [pc EXCEPT ![e] = NextStage(stage, raised)]
    /\ trace' = [trace EXCEPT ![e] = Append(@, [stage |-> stage, ok |-> ~raised])]
    /\ run_result' = [run_result EXCEPT ![e] =
            IF NextStage(stage, raised) = "idle" THEN RunResult(raised) ELSE @]

\* a call of run()
RunBegin(e) ==
    /\ pc[e] = "idle"
    /\ NoneRunning
    /\ runs[e] < env.calls
    /\ pc' = [pc EXCEPT ![e] = "load"]
    /\ runs' = [runs EXCEPT ![e] = @ + 1]
    /\ trace' = [trace EXCEPT ![e] = <<>>]
    /\ run_result' = [run_result EXCEPT ![e] = "running"]
    /\ UNCHANGED <<env, PROTOCOL_NUMBER_TO_NAME, eng, line_number, output, writes>>

\* run(): self.load_mapping_rules()
RunLoad(e) ==
    /\ pc[e] = "load"
    /\ LET r == load_mapping_rules(env.mapping_file, eng[e].mapping_rules)
       IN  /\ eng' = [eng EXCEPT ![e].mapping_rules = r.d]
           /\ EndStage(e, "load", r.raised)
    /\ line_number' = [line_number EXCEPT ![e] = 0]
    /\ UNCHANGED <<env, PROTOCOL_NUMBER_TO_NAME, output, writes, runs>>

\* process_flow_logs: the file is opened, or is missing
ScanOpen(e) ==
    /\ pc[e] = "open"
    /\ IF env.flow_log_file.exists
       THEN /\ pc' = [pc EXCEPT ![e] = "scan"]
            /\ line_number' = [line_number EXCEPT ![e] = 1]
            /\ UNCHANGED <<trace, run_result>>
       ELSE /\ EndStage(e, "scan", TRUE)
            /\ UNCHANGED line_number
    /\ UNCHANGED <<env, PROTOCOL_NUMBER_TO_NAME, eng, output, writes, runs>>

\* process_flow_logs: one turn of the line loop, or the read error that ends it
ScanLine(e) ==
    /\ pc[e] = "scan"
    /\ line_number[e] <= Len(env.flow_log_file.lines)
    /\ IF env.flow_log_file.errAt = line_number[e]
       THEN /\ EndStage(e, "scan", TRUE)
            /\ UNCHANGED <<eng, line_number>>
       ELSE /\ eng' = [eng EXCEPT ![e] =
                    ProcessLine(@, Registry(e), env.flow_log_file.lines[line_number[e]])]
            /\ line_number' = [line_number EXCEPT ![e] = @ + 1]
            /\ UNCHANGED <<pc, trace, run_result>>
    /\ UNCHANGED <<env, PROTOCOL_NUMBER_TO_NAME, output, writes, runs>>

\* process_flow_logs: the end of the file
ScanEnd(e) ==
    /\ pc[e] = "scan"
    /\ line_number[e] > Len(env.flow_log_file.lines)
    /\ EndStage(e, "scan", env.flow_log_file.errAt = line_number[e])
    /\ UNCHANGED <<env, PROTOCOL_NUMBER_TO_NAME, eng, line_number, output, writes, runs>>

\* run(): self.generate_reports()
WriteReport(e) ==
    /\ pc[e] = "write"
    /\ output' = [output EXCEPT ![e] = IF env.output_writable THEN Report(eng[e]) ELSE @]
    /\ writes' = [writes EXCEPT ![e] = IF env.output_writable THEN @ + 1 ELSE @]
    /\ EndStage(e, "write", ~env.output_writable)
    /\ UNCHANGED <<env, PROTOCOL_NUMBER_TO_NAME, eng, line_number, runs>>

Next ==
    \E e \in Engines :
        \/ Construct(e)
        \/ RunBegin(e)
        \/ RunLoad(e)
        \/ ScanOpen(e)
        \/ ScanLine(e)
        \/ ScanEnd(e)
        \/ WriteReport(e)

Spec == Init /\ [][Next]_vars

----------------------------------------------------------------------------
(* Vocabulary of the properties *)

\* instance e exists
Constructed(e) == pc[e] # "new"

\* the records of e that reached a count: tagged plus untagged
Counted(e) == DictSum(eng[e].tag_counts) + eng[e].untagged_count

\* e is inside the line loop with a line left to read
AtLine(e) == pc[e] = "scan" /\ line_number[e] <= Len(env.flow_log_file.lines)

\* the tokens of the line e reads next
PartsAt(e) == Parts(env.flow_log_file.lines[line_number[e]], eng[e].delimiter)

\* this step is one turn of e's line loop
LineStep(e) == AtLine(e) /\ line_number'[e] = line_number[e] + 1

NamedMode(e) == eng[e].log_field_names # <<>>

HasUnknownField(e) ==
    \E i \in 1..Len(eng[e].log_field_names) : eng[e].log_field_names[i] \notin DOMAIN FIELD_MAPPING

\* the three count attributes of e are left as they were
CountsUnchanged(e) ==
    /\ eng'[e].tag_counts = eng[e].tag_counts
    /\ eng'[e].port_protocol_counts = eng[e].port_protocol_counts
    /\ eng'[e].untagged_count = eng[e].untagged_count

\* the step skipped the line: one more skipped line and no count touched
SkippedOnly(e) ==
    /\ eng'[e].skipped_lines = eng[e].skipped_lines + 1
    /\ CountsUnchanged(e)

\* a token that carries no value, read as an integer field or as raw text
AbsentToken(token, as_int) ==
    \/ token = S_dash
    \/ token = <<>>
    \/ as_int /\ IntOfStr(token).k = "raise"

\* field name is not in the list, or its token carries no value
AbsentField(log_field_names, parts, name) ==
    \A i \in 1..Len(log_field_names) :
        (log_field_names[i] = name /\ \A m \in (i + 1)..Len(log_field_names) : log_field_names[m] # name)
            => AbsentToken(parts[i], TRUE)

\* the line e reads next has no destination port or no protocol
MissingPortOrProtocol(e) ==
    IF NamedMode(e)
    THEN /\ Len(PartsAt(e)) = Len(eng[e].log_field_names)
         /\ \/ AbsentField(eng[e].log_field_names, PartsAt(e), "dstport")
            \/ AbsentField(eng[e].log_field_names, PartsAt(e), "protocol")
    ELSE /\ Len(PartsAt(e)) >= DefaultMinFields
         /\ \/ AbsentToken(PartsAt(e)[7], FALSE)
            \/ AbsentToken(PartsAt(e)[8], FALSE)

----------------------------------------------------------------------------
(* C1 *)

\* C1: at every moment of every scan, in default mode and under any
\* field-name list, processedLines = skippedLines + (sum of tagCounts +
\* untaggedCount).
C1_ProcessedIsSkippedPlusCounted ==
    \A e \in Engines : eng[e].processed_lines = eng[e].skipped_lines + Counted(e)

(* C2 *)

\* C2: in named-schema mode a line read under a list that holds a name outside
\* the catalog is skipped: skippedLines grows by exactly 1 and no count changes.
C2_UnknownFieldLineSkipped ==
    [][\A e \in Engines :
          (LineStep(e) /\ NamedMode(e) /\ HasUnknownField(e)) => SkippedOnly(e)]_vars

(* C3 *)

\* C3: a line whose destination port or protocol is missing increments
\* skippedLines and changes no count; an absent value is never a key.
C3_MissingPortOrProtocolSkipped ==
    [][\A e \in Engines :
          (LineStep(e) /\ MissingPortOrProtocol(e)) => SkippedOnly(e)]_vars

(* C4 *)

\* the step of e adds one record under key to portProtocolCounts and to exactly
\* one of tagCounts[tag], when the rule table has key, or untaggedCount
CountsOneRecord(e, key) ==
    /\ eng'[e].port_protocol_counts = DictInc(eng[e].port_protocol_counts, key)
    /\ IF key \in DOMAIN eng[e].mapping_rules
       THEN /\ eng'[e].tag_counts = DictInc(eng[e].tag_counts, eng[e].mapping_rules[key])
            /\ eng'[e].untagged_count = eng[e].untagged_count
       ELSE /\ eng'[e].tag_counts = eng[e].tag_counts
            /\ eng'[e].untagged_count = eng[e].untagged_count + 1

\* C4: the sum of tagCounts plus untaggedCount equals the sum of
\* portProtocolCounts, and every step either leaves the three counts alone or
\* counts one record in portProtocolCounts and in exactly one of tagCounts
\* (rule found) and untaggedCount (no rule).
C4_TagsPlusUntaggedIsPortProtocolTotal ==
    /\ [](\A e \in Engines : Counted(e) = DictSum(eng[e].port_protocol_counts))
    /\ [][\A e \in Engines :
             \/ CountsUnchanged(e)
             \/ /\ LineStep(e)
                /\ \E key \in DOMAIN eng'[e].port_protocol_counts : CountsOneRecord(e, key)]_vars

\* an instance has counted a tagged record and an untagged one
C4_Witness ==
    \E e \in Engines :
        /\ DictSum(eng[e].tag_counts) >= 1
        /\ eng[e].untagged_count >= 1
        /\ DictSum(eng[e].port_protocol_counts) >= 2

(* C5 *)

\* C5: in named-schema mode a line whose token count differs from the length
\* of the field-name list adds 1 to skippedLines and 1 to processedLines and
\* leaves tagCounts, portProtocolCounts and untaggedCount unchanged.
C5_FieldCountMismatchSkipped ==
    [][\A e \in Engines :
          (LineStep(e) /\ NamedMode(e) /\ Len(PartsAt(e)) # Len(eng[e].log_field_names))
              => /\ SkippedOnly(e)
                 /\ eng'[e].processed_lines = eng[e].processed_lines + 1]_vars

\* an instance in named-schema mode has read a line with fewer tokens than
\* names and then one with more
C5_Witness ==
    \E e \in Engines :
        /\ pc[e] = "scan"
        /\ line_number[e] = 3
        /\ NamedMode(e)
        /\ Len(Parts(env.flow_log_file.lines[1], eng[e].delimiter)) < Len(eng[e].log_field_names)
        /\ Len(Parts(env.flow_log_file.lines[2], eng[e].delimiter)) > Len(eng[e].log_field_names)
        /\ eng[e].skipped_lines = 2
        /\ eng[e].processed_lines = 2

(* C6 *)

\* a stage of e's latest run raised
StageFailed(e) == \E i \in 1..Len(trace[e]) : ~trace[e][i].ok

\* C6: when a stage of a run fails, run() ends in an error its caller
\* observes: the error propagates out of run().
C6_FailureReachesCaller ==
    \A e \in Engines :
        (run_result[e] \in {"returned", "raised"} /\ StageFailed(e)) => run_result[e] = "raised"

(* C7 *)

StageOk(stage) == [stage |-> stage, ok |-> TRUE]

\* the stages of e's latest run are load, scan, write in this order, a failed
\* stage is the last one, and a stage is entered only after the stages before
\* it succeeded
StagesInOrder(e) ==
    LET t == trace[e]
    IN  /\ Len(t) <= 3
        /\ \A i \in 1..Len(t) :
              /\ t[i].stage = <<"load", "scan", "write">>[i]
              /\ i < Len(t) => t[i].ok
        /\ pc[e] = "load" => t = <<>>
        /\ pc[e] \in {"open", "scan"} => t = <<StageOk("load")>>
        /\ pc[e] = "write" => t = <<StageOk("load"), StageOk("scan")>>
        /\ (pc[e] = "idle" /\ t # <<>>) => (Len(t) = 3 \/ ~t[Len(t)].ok)

\* C7: run() goes through rule load, log scan, report write in this order and
\* a failed stage stops it: the log is read only after the rule load succeeded
\* and a report is written only after rule load and log scan both succeeded.
C7_StagesInOrderAndFailureStops ==
    /\ [](\A e \in Engines : StagesInOrder(e))
    /\ [][\A e \in Engines :
             /\ (eng'[e].processed_lines # eng[e].processed_lines \/ line_number'[e] > line_number[e])
                   => trace[e] = <<StageOk("load")>>
             /\ (writes'[e] # writes[e] \/ output'[e] # output[e])
                   => (pc[e] = "write" /\ trace[e] = <<StageOk("load"), StageOk("scan")>>)]_vars

\* a run whose scan broke after the first line has ended without a report
C7_Witness ==
    \E e \in Engines :
        /\ pc[e] = "idle"
        /\ trace[e] = <<StageOk("load"), [stage |-> "scan", ok |-> FALSE]>>
        /\ eng[e].processed_lines = 1
        /\ writes[e] = 0
        /\ ~output[e].written

(* C8 *)

\* loading the registry file fails: no path, no file, a column missing, or an
\* error while it is read
RegistryLoadFails(file) ==
    \/ ~file.given
    \/ ~file.exists
    \/ \A i \in 1..Len(file.header) : file.header[i] # "Decimal"
    \/ \A i \in 1..Len(file.header) : file.header[i] # "Keyword"
    \/ file.errAt \in 1..(Len(file.rows) + 1)

\* C8: every failure to load the registry file leaves the instance with
\* exactly the built-in table of 8 protocols.
C8_LoadFailureFallsBack ==
    \A e \in Engines :
        (Constructed(e) /\ RegistryLoadFails(env.args[e].protocol_mapping_file))
            => Registry(e) = common_protocols

(* C9 *)

\* the table the registry file of e alone gives
OwnRegistry(e) ==
    LET r == load_protocol_mappings(env.args[e].protocol_mapping_file, EmptyDict)
    IN  IF r.has_own THEN r.own ELSE r.cls

\* C9: the registry of a constructed instance never changes, whatever happens
\* later in the process, and holds only the entries of its own registry file
\* or of the built-in table.
C9_RegistryFixedAndOwn ==
    [][\A e \in Engines :
          /\ Constructed(e) => Registry(e)' = Registry(e)
          /\ Constructed(e)' => Registry(e)' \in {OwnRegistry(e), common_protocols}]_vars

(* C10 *)

\* the cell of a row under a column is there and, trimmed, is not empty
HasCell(header, cells, name) ==
    \E i \in 1..Len(header) : header[i] = name /\ i <= Len(cells) /\ Strip(cells[i]) # <<>>

Cell(header, cells, name) ==
    cells[CHOOSE i \in 1..Len(header) : header[i] = name /\ i <= Len(cells)]

\* a row with an integer port and a non-empty protocol and tag
ValidRuleRow(header, cells) ==
    /\ HasCell(header, cells, "dstport")
    /\ HasCell(header, cells, "protocol")
    /\ HasCell(header, cells, "tag")
    /\ IntOfStr(Cell(header, cells, "dstport")).k = "int"

\* the table of the valid rows among the first n, later rows replacing earlier
RECURSIVE RulesOfValidRows(_, _)
RulesOfValidRows(file, n) ==
    IF n = 0 THEN EmptyDict
    ELSE LET cells == file.rows[n]
             before == RulesOfValidRows(file, n - 1)
         IN  IF ValidRuleRow(file.header, cells)
             THEN DictSet(before,
                          <<IntStr(IntOfStr(Cell(file.header, cells, "dstport")).n),
                            Strip(Lower(Cell(file.header, cells, "protocol")))>>,
                          Strip(Cell(file.header, cells, "tag")))
             ELSE before

\* C10: for a rule file that exists and parses as a table, load_mapping_rules
\* completes without error and the rule table holds exactly the valid rows;
\* an invalid row never keeps the other rows from being loaded.
C10_InvalidRowsExcludedOnly ==
    \A e \in Engines :
        (env.mapping_file.exists /\ env.mapping_file.errAt = 0 /\ Len(trace[e]) >= 1)
            => /\ trace[e][1].ok
               /\ eng[e].mapping_rules = RulesOfValidRows(env.mapping_file, Len(env.mapping_file.rows))

(* C11 *)

\* the instances e and f were given the same arguments, as was every other
\* instance created so far
SameArguments(e, f) ==
    /\ env.args[e] = env.args[f]
    /\ \A g \in Engines : Constructed(g) => env.args[g] = env.args[e]

\* C11: on unchanged files two runs give identical reports: the first reports
\* of two fresh instances are equal, and a second run() on one instance writes
\* the report its first run() wrote.
C11_SameFilesSameReport ==
    [][\A e \in Engines :
          /\ (writes[e] >= 1 /\ writes'[e] = writes[e] + 1) => output'[e] = output[e]
          /\ \A f \in Engines :
                (SameArguments(e, f) /\ writes'[e] = 1 /\ writes'[f] = 1) => output'[e] = output'[f]]_vars

(* C12 *)

\* instance e was given no registry file
NoRegistryGiven(e) == ~env.args[e].protocol_mapping_file.given

\* the name the registry in effect for e gives protocol number n: its entry,
\* or n itself when it has none
ResolvedName(e, n) == IF n \in DOMAIN Registry(e) THEN Registry(e)[n] ELSE n

\* C12: a protocol number resolves to the name the registry maps it to and to
\* itself when the registry has no entry: a default-mode record is counted
\* under (port, registry name of its protocol token), or under the token
\* itself when the registry lacks it; without a registry file 6 resolves to
\* tcp and 253 to 253.
C12_ResolveByRegistryOrIdentity ==
    /\ [](\A e \in Engines :
            (Constructed(e) /\ NoRegistryGiven(e))
                => /\ protocol_number_to_name(Registry(e), S_6) = S_tcp
                   /\ protocol_number_to_name(Registry(e), S_253) = S_253)
    /\ [][\A e \in Engines :
            (/\ LineStep(e)
             /\ ~NamedMode(e)
             /\ Len(PartsAt(e)) >= DefaultMinFields
             /\ PartsAt(e)[7] # <<>>
             /\ ResolvedName(e, PartsAt(e)[8]) # <<>>)
                => eng'[e].port_protocol_counts
                     = DictInc(eng[e].port_protocol_counts,
                               <<PartsAt(e)[7], ResolvedName(e, PartsAt(e)[8])>>)]_vars

\* an instance without a registry file counted protocol 6 as tcp and protocol
\* 253 under its number
C12_Witness ==
    \E e \in Engines :
        /\ NoRegistryGiven(e)
        /\ {<<S_25, S_tcp>>, <<S_25, S_253>>} \subseteq DOMAIN eng[e].port_protocol_counts

(* C13 *)

\* the key of a valid row: the port as its decimal string, the protocol
\* lowercased and trimmed
RuleKey(header, cells) ==
    <<IntStr(IntOfStr(Cell(header, cells, "dstport")).n),
      Strip(Lower(Cell(header, cells, "protocol")))>>

RuleTag(header, cells) == Strip(Cell(header, cells, "tag"))

\* the valid rows of the rule file, by their position
ValidRows(file) == {i \in 1..Len(file.rows) : ValidRuleRow(file.header, file.rows[i])}

\* the key and the tag of every valid row
RuleKeys(file) == [i \in ValidRows(file) |-> RuleKey(file.header, file.rows[i])]
RuleTags(file) == [i \in ValidRows(file) |-> RuleTag(file.header, file.rows[i])]

\* the greatest of a non-empty set of row positions
LastOf(positions) == CHOOSE j \in positions : \A m \in positions : m <= j

\* the rows among keys that have this key
RowsWithKey(keys, key) == {i \in DOMAIN keys : keys[i] = key}

\* the rule file of e's latest run was loaded without error
RulesLoaded(e) == Len(trace[e]) >= 1 /\ trace[e][1].ok

\* the step is a load of the rule file by e that completes without error
LoadsRules(e) == pc[e] = "load" /\ pc'[e] = "open"

\* a lookup in rules succeeds for the keys of the valid rows only, and gives
\* every row its own tag
FoundWithOwnTag(rules, file) ==
    LET keys == RuleKeys(file)
        tags == RuleTags(file)
    IN  /\ DOMAIN rules = {keys[i] : i \in DOMAIN keys}
        /\ \A i \in DOMAIN keys : rules[keys[i]] = tags[i]

\* a lookup in rules succeeds for the keys of the valid rows only, and gives
\* the tag of the last row with the key
FoundWithLastTag(rules, file) ==
    LET keys == RuleKeys(file)
        tags == RuleTags(file)
    IN  /\ DOMAIN rules = {keys[i] : i \in DOMAIN keys}
        /\ \A i \in DOMAIN keys : rules[keys[i]] = tags[LastOf(RowsWithKey(keys, keys[i]))]

\* this step counts a default-mode record under the tag the rule file gives
\* its (port, protocol name), or as untagged when no valid row has that key
TagsByRuleFile(e) ==
    LET keys == RuleKeys(env.mapping_file)
        tags == RuleTags(env.mapping_file)
        hits == RowsWithKey(keys, <<PartsAt(e)[7], ResolvedName(e, PartsAt(e)[8])>>)
    IN  IF hits # {}
        THEN /\ eng'[e].tag_counts = DictInc(eng[e].tag_counts, tags[LastOf(hits)])
             /\ eng'[e].untagged_count = eng[e].untagged_count
        ELSE /\ eng'[e].tag_counts = eng[e].tag_counts
             /\ eng'[e].untagged_count = eng[e].untagged_count + 1

\* this step handles a default-mode line whose port and protocol name are
\* not empty
DefaultRecordStep(e) ==
    /\ LineStep(e)
    /\ ~NamedMode(e)
    /\ Len(PartsAt(e)) >= DefaultMinFields
    /\ PartsAt(e)[7] # <<>>
    /\ ResolvedName(e, PartsAt(e)[8]) # <<>>

\* C13 as stated: every loaded row (p, q, t) is found again under (decimal
\* string of p, q lowercased and trimmed) with its own tag t, and no other key
\* is found.
C13_LoadedRowFoundWithItsTag ==
    \A e \in Engines : RulesLoaded(e) => FoundWithOwnTag(eng[e].mapping_rules, env.mapping_file)

\* C13 amended: a lookup with the key of a loaded row returns the tag of the
\* last loaded row with that key, a lookup with any other key returns none,
\* and a record whose port and resolved protocol name equal a rule's key is
\* counted under that tag whatever the letter case of the rule's protocol.
C13_LoadedKeyFoundWithLastTag ==
    [][\A e \in Engines :
          /\ LoadsRules(e) => FoundWithLastTag(eng'[e].mapping_rules, env.mapping_file)
          /\ pc[e] \notin {"new", "load"} => eng'[e].mapping_rules = eng[e].mapping_rules
          /\ DefaultRecordStep(e) => TagsByRuleFile(e)]_vars

\* two rows with one key and different tags were loaded, the second written
\* with protocol TCP, and the record with port 25 and protocol 6 was counted
\* under the second row's tag
C13_Witness ==
    \E e \in Engines :
        /\ RulesLoaded(e)
        /\ env.mapping_file.rows = <<<<S_25, S_tcp, S_sv_P1>>, <<S_25, S_TCP_padded, S_sv_P2>>>>
        /\ env.mapping_file.header = MappingHeader
        /\ S_sv_P2 \in DOMAIN eng[e].tag_counts

(* C14 *)

\* e is in its first run(), or has ended it
FirstRun(e) == runs[e] = 1

\* the scan stage of e's latest run read the flow log to its end
PassComplete(e) == Len(trace[e]) >= 2 /\ trace[e][2].ok

\* C14: every line read from the flow log adds exactly one to processedLines
\* whatever becomes of the line, nothing else changes processedLines, and
\* after a complete pass over a file of n lines on a fresh instance
\* processedLines = n.
C14_EveryLineProcessedOnce ==
    /\ [][\A e \in Engines :
            IF LineStep(e)
            THEN eng'[e].processed_lines = eng[e].processed_lines + 1
            ELSE eng'[e].processed_lines = eng[e].processed_lines]_vars
    /\ [](\A e \in Engines :
            /\ (FirstRun(e) /\ pc[e] = "scan") => eng[e].processed_lines = line_number[e] - 1
            /\ (FirstRun(e) /\ PassComplete(e))
                  => eng[e].processed_lines = Len(env.flow_log_file.lines))

\* a fresh instance completed a pass over two lines, one counted and one
\* skipped
C14_Witness ==
    \E e \in Engines :
        /\ FirstRun(e)
        /\ PassComplete(e)
        /\ eng[e].processed_lines = 2
        /\ eng[e].skipped_lines = 1
        /\ Counted(e) = 1

(* C15 *)

\* the process of the end-to-end case: the single rule (25, tcp, sv_P1), no
\* registry file, default mode, one line with port 25 and protocol 6
SingleRuleCase(e) ==
    /\ env.mapping_file = MappingFile(MappingHeader, <<<<S_25, S_tcp, S_sv_P1>>>>, 0)
    /\ env.flow_log_file = FlowLogFile(<<DefaultLine(S_25, S_6, 14)>>, 0)
    /\ env.args[e] = Args(<<>>, NoRegistryFile)

\* C15: in default mode a line with fewer than 14 tokens is skipped and no
\* count changes; a line with at least 14 tokens is counted under its 7th
\* token as port and the name of its 8th token as protocol (and skipped when
\* one of them is empty); the single rule (25, tcp, sv_P1) and one line with
\* port 25 and protocol 6 give tagCounts[sv_P1] = 1,
\* portProtocolCounts[(25, tcp)] = 1, untaggedCount = 0, skippedLines = 0.
C15_DefaultModeLayout ==
    /\ [][\A e \in Engines :
            (LineStep(e) /\ ~NamedMode(e)) =>
                IF Len(PartsAt(e)) < 14
                THEN SkippedOnly(e)
                ELSE LET port == PartsAt(e)[7]
                         name == ResolvedName(e, PartsAt(e)[8])
                     IN  IF port = <<>> \/ name = <<>>
                         THEN SkippedOnly(e)
                         ELSE /\ eng'[e].port_protocol_counts
                                   = DictInc(eng[e].port_protocol_counts, <<port, name>>)
                              /\ eng'[e].skipped_lines = eng[e].skipped_lines]_vars
    /\ [](\A e \in Engines :
            (SingleRuleCase(e) /\ FirstRun(e) /\ PassComplete(e))
                => /\ eng[e].tag_counts = (S_sv_P1 :> 1)
                   /\ eng[e].port_protocol_counts = (<<S_25, S_tcp>> :> 1)
                   /\ eng[e].untagged_count = 0
                   /\ eng[e].skipped_lines = 0)

\* the end-to-end case ran to the end of its pass
C15_Witness ==
    \E e \in Engines :
        /\ SingleRuleCase(e)
        /\ FirstRun(e)
        /\ PassComplete(e)
        /\ eng[e].processed_lines = 1

(* C16 *)

\* the step writes a report of e
Writes(e) == writes'[e] = writes[e] + 1

\* seq lists every element of set once, in strictly ascending order
AscendingTags(seq, set) ==
    /\ Len(seq) = Cardinality(set)
    /\ \A i \in 1..Len(seq) : seq[i] \in set
    /\ \A i \in 1..(Len(seq) - 1) : StrLess(seq[i], seq[i + 1])

AscendingPairs(seq, set) ==
    /\ Len(seq) = Cardinality(set)
    /\ \A i \in 1..Len(seq) : seq[i] \in set
    /\ \A i \in 1..(Len(seq) - 1) : PairLess(seq[i], seq[i + 1])

\* C16: the report is an ordered snapshot of the instance: a row for every
\* tag of tagCounts, once, with its count, in ascending order of the tag, then
\* one Untagged row with untaggedCount, then a row for every (port, protocol)
\* key of portProtocolCounts, once, with its count, in ascending order of the
\* pair, then processedLines and skippedLines, and no other row.
C16_ReportIsOrderedSnapshot ==
    [][\A e \in Engines :
          Writes(e) =>
              LET c == eng[e]
                  T == DOMAIN c.tag_counts
                  K == DOMAIN c.port_protocol_counts
              IN  \E ts \in [1..Cardinality(T) -> T], ks \in [1..Cardinality(K) -> K] :
                      /\ AscendingTags(ts, T)
                      /\ AscendingPairs(ks, K)
                      /\ output'[e].lines =
                             TagHeaderLines
                             \o [i \in 1..Len(ts) |-> TagLine(ts[i], c.tag_counts[ts[i]])]
                             \o <<UntaggedLine(c.untagged_count), <<>>>>
                             \o PairHeaderLines
                             \o [i \in 1..Len(ks) |-> PairLine(ks[i], c.port_protocol_counts[ks[i]])]
                             \o <<<<>>, ProcessedLine(c.processed_lines),
                                  SkippedLine(c.skipped_lines)>>]_vars

\* a report with two tag rows and two (port, protocol) rows was written
C16_Witness ==
    \E e \in Engines :
        /\ output[e].written
        /\ pc[e] = "idle"
        /\ Cardinality(DOMAIN eng[e].tag_counts) = 2
        /\ Cardinality(DOMAIN eng[e].port_protocol_counts) = 2
        /\ Len(output[e].lines) = 13

(* C17 *)

\* every line of the flow log has exactly 14 tokens
AllLinesV2 ==
    \A i \in 1..Len(env.flow_log_file.lines) :
        Len(Parts(env.flow_log_file.lines[i], " ")) = 14

\* e ran in default mode and f with the version-2 field names, on the same
\* registry file, each a first complete pass
DefaultAndV2Ran(e, f) ==
    /\ env.args[e].log_field_names = <<>>
    /\ env.args[f].log_field_names = V2FieldNames
    /\ env.args[e].protocol_mapping_file = env.args[f].protocol_mapping_file
    /\ FirstRun(e) /\ PassComplete(e)
    /\ FirstRun(f) /\ PassComplete(f)

\* C17: default mode behaves as the version-2 named schema: on lines of
\* exactly 14 tokens an instance in default mode and an instance given the 14
\* version-2 field names end with the same tagCounts, portProtocolCounts,
\* untaggedCount and skippedLines.
C17_DefaultModeIsV2Schema ==
    \A e, f \in Engines :
        (AllLinesV2 /\ DefaultAndV2Ran(e, f))
            => /\ eng[e].tag_counts = eng[f].tag_counts
               /\ eng[e].port_protocol_counts = eng[f].port_protocol_counts
               /\ eng[e].untagged_count = eng[f].untagged_count
               /\ eng[e].skipped_lines = eng[f].skipped_lines

====
